---- MODULE Spec2Model ----
(***************************************************************************)
(* Model of src/spark/cycle_step_analysis.py: one processing window of the *)
(* battery-cycler stream is parsed, reduced per key, routed by step type   *)
(* and written to the four Cassandra tables in size-bounded CQL batches.   *)
(***************************************************************************)
EXTENDS Integers, Sequences, FiniteSets, Bags, TLC

(***************************************************************************)
(* Floating point.  A Python float is a binary floating-point number that  *)
(* every arithmetic operation rounds to nearest, ties to even.  The model  *)
(* keeps that arithmetic with a mantissa of MantBits bits (the smallest    *)
(* width that holds the conversion constants exactly) and an unbounded     *)
(* exponent: a float is [m, e] denoting m * 2^e, with m = 0 or             *)
(* 2^(MantBits-1) <= |m| < 2^MantBits.                                     *)
(***************************************************************************)
MantBits == 15

Abs(n) == IF n < 0 THEN -n ELSE n

Sgn(n) == IF n < 0 THEN -1 ELSE IF n = 0 THEN 0 ELSE 1

RECURSIVE BitLen(_)
BitLen(n) == IF n = 0 THEN 0 ELSE 1 + BitLen(n \div 2)

FZero == [m |-> 0, e |-> 0]

\* The float nearest to n * 2^e (round half to even).
RoundNorm(n, e) ==
    LET a  == Abs(n)
        bl == BitLen(a)
    IN  IF a = 0 THEN FZero
        ELSE IF bl <= MantBits
        THEN [m |-> Sgn(n) * a * 2^(MantBits - bl), e |-> e - (MantBits - bl)]
        ELSE LET k    == bl - MantBits
                 q    == a \div 2^k
                 r    == a % 2^k
                 half == 2^(k - 1)
                 up   == r > half \/ (r = half /\ q % 2 = 1)
                 q2   == IF up THEN q + 1 ELSE q
             IN  IF q2 = 2^MantBits
                 THEN [m |-> Sgn(n) * 2^(MantBits - 1), e |-> e + k + 1]
                 ELSE [m |-> Sgn(n) * q2, e |-> e + k]

FromInt(n) == RoundNorm(n, 0)

FNeg(x) == [m |-> -x.m, e |-> x.e]

\* x + y of two floats.
FAdd(x, y) ==
    IF x.m = 0 THEN y
    ELSE IF y.m = 0 THEN x
    ELSE LET hi == IF x.e >= y.e THEN x ELSE y
             lo == IF x.e >= y.e THEN y ELSE x
             d  == hi.e - lo.e
         IN  IF d > MantBits + 1 THEN hi
             ELSE RoundNorm(hi.m * 2^d + lo.m, lo.e)

\* x * y of two floats.
FMul(x, y) == RoundNorm(x.m * y.m, x.e + y.e)

\* x / y of two floats, y nonzero: the quotient to MantBits + 3 bits by long
\* division, with a sticky bit for the remainder, then rounded.
FDiv(x, y) ==
    LET a  == Abs(x.m)
        b  == Abs(y.m)
        q1 == (a * 2^MantBits) \div b
        r1 == (a * 2^MantBits) % b
        q2 == (r1 * 4) \div b
        r2 == (r1 * 4) % b
        n  == (q1 * 4 + q2) * 2 + (IF r2 = 0 THEN 0 ELSE 1)
    IN  RoundNorm(Sgn(x.m) * Sgn(y.m) * n, x.e - y.e - MantBits - 3)

\* The sign of a float, and the order of two floats.
FSign(x) == Sgn(x.m)

FLeq(x, y) == FSign(FAdd(y, FNeg(x))) >= 0

(***************************************************************************)
(* Text.  A string is a sequence of one-character strings.                 *)
(***************************************************************************)
IsSpace(c) == c = " "

\* str.strip(): leading and trailing whitespace removed.
RECURSIVE LStrip(_)
LStrip(s) == IF s # <<>> /\ IsSpace(Head(s)) THEN LStrip(Tail(s)) ELSE s

RECURSIVE RStrip(_)
RStrip(s) ==
    IF s # <<>> /\ IsSpace(s[Len(s)]) THEN RStrip(SubSeq(s, 1, Len(s) - 1)) ELSE s

Strip(s) == RStrip(LStrip(s))

\* str.split(","): the fields between the commas; k + 1 fields for k commas.
RECURSIVE SplitFrom(_, _)
SplitFrom(s, cur) ==
    IF s = <<>> THEN <<cur>>
    ELSE IF Head(s) = "," THEN <<cur>> \o SplitFrom(Tail(s), <<>>)
    ELSE SplitFrom(Tail(s), Append(cur, Head(s)))

Split(s) == SplitFrom(s, <<>>)

\* str.upper() of one character, over the letters of the step alphabet.
Upper(c) ==
    CASE c = "d" -> "D"
      [] c = "c" -> "C"
      [] c = "x" -> "X"
      [] c = "b" -> "B"
      [] c = "g" -> "G"
      [] c = "t" -> "T"
      [] OTHER   -> c

DigitChars == <<"0", "1", "2", "3", "4", "5", "6", "7", "8", "9">>

IsDigit(c) == \E i \in 1..Len(DigitChars) : DigitChars[i] = c

DigitVal(c) == (CHOOSE i \in 1..Len(DigitChars) : DigitChars[i] = c) - 1

AllDigits(s) == \A i \in 1..Len(s) : IsDigit(s[i])

RECURSIVE DigitsVal(_)
DigitsVal(s) ==
    IF s = <<>> THEN 0 ELSE 10 * DigitsVal(SubSeq(s, 1, Len(s) - 1)) + DigitVal(s[Len(s)])

IsSign(c) == c = "-" \/ c = "+"

Unsigned(s) == IF s # <<>> /\ IsSign(Head(s)) THEN Tail(s) ELSE s

SignOf(s) == IF s # <<>> /\ Head(s) = "-" THEN -1 ELSE 1

\* int(s): an optional sign and one or more digits, else ValueError.
IntOk(s) == Unsigned(s) # <<>> /\ AllDigits(Unsigned(s))

IntVal(s) == SignOf(s) * DigitsVal(Unsigned(s))

\* float(s): an optional sign, digits, and an optional point with digits, at
\* least one digit in all, else ValueError.  The value is the float nearest
\* to the decimal, which is the rounded quotient digits / 10^(fraction digits).
PointAt(s) == IF \E i \in 1..Len(s) : s[i] = "." THEN CHOOSE i \in 1..Len(s) : s[i] = "." ELSE 0

IntPart(s) == IF PointAt(s) = 0 THEN s ELSE SubSeq(s, 1, PointAt(s) - 1)

FracPart(s) == IF PointAt(s) = 0 THEN <<>> ELSE SubSeq(s, PointAt(s) + 1, Len(s))

FloatOk(s) ==
    LET u == Unsigned(s)
    IN  /\ AllDigits(IntPart(u)) /\ AllDigits(FracPart(u))
        /\ Len(IntPart(u)) + Len(FracPart(u)) >= 1

FloatVal(s) ==
    LET u == Unsigned(s)
    IN  FDiv(FromInt(SignOf(s) * DigitsVal(IntPart(u) \o FracPart(u))),
             FromInt(10^Len(FracPart(u))))

(***************************************************************************)
(* Bounds and inputs.                                                      *)
(***************************************************************************)
\* Most raw records in one window.
MaxWin == 3

\* Most entries in one partition handed to send_partition on its own.
MaxEntries == 3

\* Largest batch threshold tried besides the default.
MaxCrit == 2

\* Most send_partition calls made in a row against one store.
MaxCalls == 2

\* crit_size when the caller gives none.
CRIT_SIZE_DEFAULT == 500

RECURSIVE Csv(_)
Csv(fields) ==
    IF Len(fields) = 1 THEN fields[1] ELSE fields[1] \o <<",">> \o Csv(Tail(fields))

\* Raw Kafka values: (id, group, cycle, step, date-time, voltage, current,
\* previous voltage, step time).
RawPool ==
    { Csv(<< <<"b">>, <<"g">>, <<"1">>, <<"D">>, <<"t">>, <<"4">>, <<"1">>, <<"4">>, <<"0">> >>),
      Csv(<< <<"b">>, <<"g">>, <<"1">>, <<"D">>, <<"t">>, <<"4">>, <<"2">>, <<"4">>, <<"0">> >>),
      Csv(<< <<"b">>, <<"g">>, <<"1">>, <<"C">>, <<"t">>, <<"4">>, <<"-", "2">>, <<"4">>, <<"0">> >>),
      Csv(<< <<"b">>, <<"g">>, <<"1">>, <<"x">>, <<"t">>, <<"4">>, <<"2">>, <<"4">>, <<"0">> >>),
      Csv(<< <<"b">>, <<"g">>, <<"x">>, <<"D">>, <<"t">>, <<"4">>, <<"2">>, <<"4">>, <<"0">> >>),
      Csv(<< <<"b">>, <<"g">>, <<"1">> >>),
      Csv(<< <<"b">>, <<"g">>, <<"1">>, <<>>, <<"t">>, <<"4">>, <<"2">>, <<"4">>, <<"0">> >>),
      Csv(<< <<" ", "b">>, <<"g", " ">>, <<"0", "1">>, <<"d", "1">>, <<"t">>, <<"4", ".", "1">>,
             <<"2">>, <<"3", ".", "9">>, <<"0", " ">> >>) }

Rows == { <<<<"g">>, 1, <<"b">>>>, <<<<"g">>, 2, <<"b">>>> }

\* Entries (group, cycle, id, metric value) of a partition.
EntryPool ==
    { <<r[1], r[2], r[3], FromInt(v)>> : r \in Rows, v \in {1, 2} }
        \ { << <<"g">>, 2, <<"b">>, FromInt(2) >> }

Tables == <<"discharge_capacity", "charge_capacity", "discharge_energy", "charge_energy">>

SeqsUpTo(S, n) == UNION { [1..k -> S] : k \in 0..n }

CritSizes == (1..MaxCrit) \cup {CRIT_SIZE_DEFAULT}

VARIABLES
    raw,        \* the window's raw Kafka values
    pos,        \* the next raw value to map
    paired,     \* paired_rdd: the (key, value) pairs mapped so far
    accs,       \* inst_rdd while it is reduced into total_rdd
    rpos,       \* the next reduced record to route
    discharge,  \* discharge_rdd
    charge,     \* charge_rdd
    sink,       \* the output operation (Spec) or call (SpecW) that is next or running
    table,      \* table_name of the running send_partition
    crit_size,  \* crit_size of the running send_partition
    entries,    \* the partition of the running send_partition
    consumed,   \* how many of its entries the for loop has taken
    cql_batch,  \* the BatchStatement being filled
    batch_size, \* its counter
    session,    \* db_session: "none", "open" or "closed"
    log,        \* the calls the running send_partition made on db_session
    store,      \* the tables: store[t][row] is the metric column of the row
    sent,       \* per table and row, the values of the acknowledged writes, oldest first
    pc,
    err         \* the exception that escaped, or "none"

vars == <<raw, pos, paired, accs, rpos, discharge, charge, sink, table, crit_size, entries,
          consumed, cql_batch, batch_size, session, log, store, sent, pc, err>>

streamVars == <<raw, pos, paired, accs, rpos, discharge, charge>>

writerVars == <<table, crit_size, entries, consumed, cql_batch, batch_size, session, log>>

(***************************************************************************)
(* summarize_step_data                                                     *)
(***************************************************************************)
DELTA_TIME == FromInt(1)

CAP_CONVERSION == FromInt(3600000)

ENG_CONVERSION == FromInt(3600000)

PWR_CONVERSION == FromInt(1000)

\* parsed_rdd: the value stripped, split by comma, each field stripped.
Parsed(ln) == LET f == Split(Strip(ln)) IN [i \in 1..Len(f) |-> Strip(f[i])]

\* paired_rdd: the fields are read and converted in order; the first one that
\* is missing (IndexError) or does not convert (ValueError) raises.
FieldErr(x, i) ==
    IF Len(x) < i THEN "IndexError"
    ELSE IF i = 3 /\ ~IntOk(x[i]) THEN "ValueError"
    ELSE IF i \in 6..9 /\ ~FloatOk(x[i]) THEN "ValueError"
    ELSE "none"

PairErr(x) ==
    IF \E i \in 1..9 : FieldErr(x, i) # "none"
    THEN LET i == CHOOSE j \in 1..9 :
                      /\ FieldErr(x, j) # "none"
                      /\ \A k \in 1..(j - 1) : FieldErr(x, k) = "none"
         IN  FieldErr(x, i)
    ELSE "none"

Paired(x) ==
    [key |-> <<x[1], x[2], IntVal(x[3]), x[4]>>,
     val |-> <<x[5], FloatVal(x[6]), FloatVal(x[7]), FloatVal(x[8]), FloatVal(x[9])>>]

\* Inst with the energy taken over the difference of the two voltages.
InstVoltageDifference(p) ==
    [key |-> p.key,
     val |-> << FDiv(FMul(p.val[3], DELTA_TIME), CAP_CONVERSION),
                FDiv(FMul(FMul(p.val[3], FAdd(p.val[2], FNeg(p.val[4]))), DELTA_TIME),
                     FMul(FromInt(2), ENG_CONVERSION)),
                FDiv(FMul(p.val[3], p.val[2]), PWR_CONVERSION),
                1 >>]

\* inst_rdd: capacity, energy, power and count of one entry.
Inst(p) ==
    [key |-> p.key,
     val |-> << FDiv(FMul(p.val[3], DELTA_TIME), CAP_CONVERSION),
                FDiv(FMul(FMul(p.val[3], FAdd(p.val[2], p.val[4])), DELTA_TIME),
                     FMul(FromInt(2), ENG_CONVERSION)),
                FDiv(FMul(p.val[3], p.val[2]), PWR_CONVERSION),
                1 >>]

\* Combine that keeps the count of its first argument.
CombineKeepsCount(i, j) == <<FAdd(i[1], j[1]), FAdd(i[2], j[2]), FAdd(i[3], j[3]), i[4]>>

\* The function given to reduceByKey.
Combine(i, j) == <<FAdd(i[1], j[1]), FAdd(i[2], j[2]), FAdd(i[3], j[3]), i[4] + j[4]>>

\* Mergeable on (battery id, group, cycle) alone, the step left out of the key.
MergeableIgnoringStep(a, b) == SubSeq(a.key, 1, 3) = SubSeq(b.key, 1, 3)

\* reduceByKey merges two values only when their keys are equal.
Mergeable(a, b) == a.key = b.key

RemoveAt(s, k) == SubSeq(s, 1, k - 1) \o SubSeq(s, k + 1, Len(s))

\* summary_rdd: (step, group, cycle, id, capacity, energy, power, counts).
Summary(t) ==
    <<t.key[4], t.key[2], t.key[3], t.key[1], t.val[1], t.val[2], t.val[3], t.val[4]>>

\* The filters: x[0][0] raises IndexError on an empty step.
FilterErr(x) == IF x[1] = <<>> THEN "IndexError" ELSE "none"

IsDischarge(x) == Upper(x[1][1]) = "D"

IsCharge(x) == Upper(x[1][1]) = "C"

Mapped == pos > Len(raw)

Reduced == Mapped /\ \A i, j \in 1..Len(accs) : i # j => ~Mergeable(accs[i], accs[j])

Routed == Reduced /\ rpos > Len(accs)

\* One raw value goes through the three maps.
MapRecord ==
    /\ pc = "stream" /\ ~Mapped
    /\ PairErr(Parsed(raw[pos])) = "none"
    /\ paired' = Append(paired, Paired(Parsed(raw[pos])))
    /\ accs' = Append(accs, Inst(Paired(Parsed(raw[pos]))))
    /\ pos' = pos + 1
    /\ UNCHANGED <<raw, rpos, discharge, charge, sink, writerVars, store, sent, pc, err>>

\* The lambda of paired_rdd raises: nothing catches it, the window's job fails.
MapRaise ==
    /\ pc = "stream" /\ ~Mapped
    /\ PairErr(Parsed(raw[pos])) # "none"
    /\ pc' = "failed"
    /\ err' = PairErr(Parsed(raw[pos]))
    /\ UNCHANGED <<streamVars, sink, writerVars, store, sent>>

\* reduceByKey combines any two values of one key, in either order.
ReduceByKey ==
    /\ pc = "stream" /\ Mapped
    /\ \E i, j \in 1..Len(accs) :
          /\ i # j
          /\ Mergeable(accs[i], accs[j])
          /\ LET lo == IF i < j THEN i ELSE j
                 hi == IF i < j THEN j ELSE i
                 c  == [key |-> accs[i].key, val |-> Combine(accs[i].val, accs[j].val)]
             IN  accs' = RemoveAt([accs EXCEPT ![lo] = c], hi)
    /\ UNCHANGED <<raw, pos, paired, rpos, discharge, charge, sink, writerVars, store, sent,
                   pc, err>>

\* One reduced record is re-organized and goes through both filters.
Route ==
    /\ pc = "stream" /\ Reduced /\ ~Routed
    /\ LET x == Summary(accs[rpos])
       IN  /\ FilterErr(x) = "none"
           /\ discharge' = IF IsDischarge(x) THEN Append(discharge, x) ELSE discharge
           /\ charge' = IF IsCharge(x) THEN Append(charge, x) ELSE charge
    /\ rpos' = rpos + 1
    /\ UNCHANGED <<raw, pos, paired, accs, sink, writerVars, store, sent, pc, err>>

RouteRaise ==
    /\ pc = "stream" /\ Reduced /\ ~Routed
    /\ FilterErr(Summary(accs[rpos])) # "none"
    /\ pc' = "failed"
    /\ err' = FilterErr(Summary(accs[rpos]))
    /\ UNCHANGED <<streamVars, sink, writerVars, store, sent>>

\* The four maps of the main module: (group, cycle, id, capacity or energy).
Project(rdd, f) == [i \in 1..Len(rdd) |-> <<rdd[i][2], rdd[i][3], rdd[i][4], rdd[i][f]>>]

SinkEntries(k) ==
    CASE k = 1 -> Project(discharge, 5)
      [] k = 2 -> Project(charge, 5)
      [] k = 3 -> Project(discharge, 6)
      [] k = 4 -> Project(charge, 6)

(***************************************************************************)
(* send_partition                                                          *)
(***************************************************************************)
\* BatchStatement(consistency_level=QUORUM) before the loop.
NewBatch == [cl |-> "QUORUM", ops |-> <<>>]

\* ReinitBatch with the driver's default consistency level.
ReinitBatchDefault == [cl |-> "LOCAL_ONE", ops |-> <<>>]

\* BatchStatement(consistency_level=QUORUM) after a threshold flush.
ReinitBatch == [cl |-> "QUORUM", ops |-> <<>>]

\* cql_batch.add: the parameters are the one-element ValueSequence (e[3],),
\* then e[0], e[1], e[2].
AddOp(b, e) == [b EXCEPT !.ops = Append(@, << <<e[4]>>, e[1], e[2], e[3] >>)]

\* ApplyOp as SET metric = ?: the row is overwritten.
ApplyOpOverwrite(tbl, op) ==
    LET row == <<op[2], op[3], op[4]>>
    IN  IF row \in DOMAIN tbl
        THEN [tbl EXCEPT ![row] = op[1]]
        ELSE tbl @@ (row :> op[1])

\* UPDATE t SET metric = ? + metric WHERE group = ? AND cycle = ? AND id = ?
\* The first parameter is a sequence; the row is created when it is absent.
ApplyOp(tbl, op) ==
    LET row == <<op[2], op[3], op[4]>>
    IN  IF row \in DOMAIN tbl
        THEN [tbl EXCEPT ![row] = op[1] \o @]
        ELSE tbl @@ (row :> op[1])

\* db_session.execute of a batch that is acknowledged: its statements in order.
RECURSIVE ExecBatch(_, _)
ExecBatch(tbl, ops) ==
    IF ops = <<>> THEN tbl ELSE ExecBatch(ApplyOp(tbl, Head(ops)), Tail(ops))

\* The record of the acknowledged writes, per row, oldest first.
RECURSIVE Record(_, _)
Record(tbl, ops) ==
    IF ops = <<>> THEN tbl
    ELSE LET op  == Head(ops)
             row == <<op[2], op[3], op[4]>>
             t2  == IF row \in DOMAIN tbl
                    THEN [tbl EXCEPT ![row] = @ \o op[1]]
                    ELSE tbl @@ (row :> op[1])
         IN  Record(t2, Tail(ops))

ExecEvent(b, ok) == [op |-> "execute", cl |-> b.cl, ops |-> b.ops, ok |-> ok]

ShutdownEvent == [op |-> "shutdown", cl |-> "none", ops |-> <<>>, ok |-> TRUE]

\* Lines 122-135: the session, the first batch and the counter.
ConnectTo(t, part, crit) ==
    /\ session' = "open"
    /\ cql_batch' = NewBatch
    /\ batch_size' = 0
    /\ table' = t
    /\ entries' = part
    /\ crit_size' = crit
    /\ consumed' = 0
    /\ log' = <<>>
    /\ pc' = "loop"
    /\ err' = err

\* AtThreshold one entry late.
AtThresholdLate(n, crit) == n = crit + 1

\* The threshold test of the loop.
AtThreshold(n, crit) == n = crit

\* One iteration of the loop that does not reach the threshold.
LoopAdd ==
    /\ pc = "loop" /\ consumed < Len(entries)
    /\ ~AtThreshold(batch_size + 1, crit_size)
    /\ cql_batch' = AddOp(cql_batch, entries[consumed + 1])
    /\ batch_size' = batch_size + 1
    /\ consumed' = consumed + 1
    /\ UNCHANGED <<streamVars, sink, table, crit_size, entries, session, log, store, sent,
                   pc, err>>

\* One iteration that reaches the threshold, the execute acknowledged.
LoopFlush ==
    /\ pc = "loop" /\ consumed < Len(entries)
    /\ AtThreshold(batch_size + 1, crit_size)
    /\ LET b == AddOp(cql_batch, entries[consumed + 1])
       IN  /\ store' = [store EXCEPT ![table] = ExecBatch(@, b.ops)]
           /\ sent' = [sent EXCEPT ![table] = Record(@, b.ops)]
           /\ log' = Append(log, ExecEvent(b, TRUE))
    /\ cql_batch' = ReinitBatch
    /\ batch_size' = 0
    /\ consumed' = consumed + 1
    /\ UNCHANGED <<streamVars, sink, table, crit_size, entries, session, pc, err>>

\* LoopFlushRaise with the failed execute caught and the batch executed again.
LoopFlushRetry ==
    /\ pc = "loop" /\ consumed < Len(entries)
    /\ AtThreshold(batch_size + 1, crit_size)
    /\ LET b == AddOp(cql_batch, entries[consumed + 1])
       IN  /\ store' = [store EXCEPT ![table] = ExecBatch(@, b.ops)]
           /\ sent' = [sent EXCEPT ![table] = Record(@, b.ops)]
           /\ log' = log \o <<ExecEvent(b, FALSE), ExecEvent(b, TRUE)>>
    /\ cql_batch' = ReinitBatch
    /\ batch_size' = 0
    /\ consumed' = consumed + 1
    /\ UNCHANGED <<streamVars, sink, table, crit_size, entries, session, pc, err>>

\* One iteration that reaches the threshold, the execute raising: the
\* exception leaves send_partition.
LoopFlushRaise ==
    /\ pc = "loop" /\ consumed < Len(entries)
    /\ AtThreshold(batch_size + 1, crit_size)
    /\ cql_batch' = AddOp(cql_batch, entries[consumed + 1])
    /\ batch_size' = batch_size + 1
    /\ consumed' = consumed + 1
    /\ log' = Append(log, ExecEvent(cql_batch', FALSE))
    /\ pc' = "failed"
    /\ err' = "FlushFailure"
    /\ UNCHANGED <<streamVars, sink, table, crit_size, entries, session, store, sent>>

\* Line 154: the execute after the loop, acknowledged.
FinalFlush ==
    /\ pc = "loop" /\ consumed = Len(entries)
    /\ store' = [store EXCEPT ![table] = ExecBatch(@, cql_batch.ops)]
    /\ sent' = [sent EXCEPT ![table] = Record(@, cql_batch.ops)]
    /\ log' = Append(log, ExecEvent(cql_batch, TRUE))
    /\ pc' = "closing"
    /\ UNCHANGED <<streamVars, sink, table, crit_size, entries, consumed, cql_batch,
                   batch_size, session, err>>

\* Line 154: the execute after the loop, raising.
FinalFlushRaise ==
    /\ pc = "loop" /\ consumed = Len(entries)
    /\ log' = Append(log, ExecEvent(cql_batch, FALSE))
    /\ pc' = "failed"
    /\ err' = "FlushFailure"
    /\ UNCHANGED <<streamVars, sink, table, crit_size, entries, consumed, cql_batch,
                   batch_size, session, store, sent>>

\* Line 155.
Shutdown ==
    /\ pc = "closing"
    /\ session' = "closed"
    /\ log' = Append(log, ShutdownEvent)
    /\ pc' = "returning"
    /\ UNCHANGED <<streamVars, sink, table, crit_size, entries, consumed, cql_batch,
                   batch_size, store, sent, err>>

\* Line 157: send_partition returns and its locals are gone.
Return ==
    /\ pc = "returning"
    /\ session' = "none" /\ table' = "none" /\ crit_size' = CRIT_SIZE_DEFAULT
    /\ entries' = <<>> /\ consumed' = 0 /\ cql_batch' = NewBatch /\ batch_size' = 0
    /\ log' = <<>>
    /\ sink' = sink + 1
    /\ pc' = "sink"
    /\ UNCHANGED <<streamVars, store, sent, err>>

\* save_to_database: the window's four output operations, in the order the
\* main module registers them, each with the default crit_size.
SaveToDatabase ==
    /\ \/ pc = "stream" /\ Routed
       \/ pc = "sink"
    /\ sink <= Len(Tables)
    /\ ConnectTo(Tables[sink], SinkEntries(sink), CRIT_SIZE_DEFAULT)
    /\ UNCHANGED <<streamVars, sink, store, sent>>

\* send_partition called on its own: any table, partition and threshold.
Call ==
    /\ pc = "sink"
    /\ sink <= MaxCalls
    /\ \E part \in SeqsUpTo(EntryPool, MaxEntries), crit \in CritSizes :
          ConnectTo(Tables[1], part, crit)
    /\ UNCHANGED <<streamVars, sink, store, sent>>

EmptyStore == [t \in {Tables[k] : k \in 1..Len(Tables)} |-> <<>>]

InitCommon ==
    /\ pos = 1 /\ paired = <<>> /\ accs = <<>> /\ rpos = 1
    /\ discharge = <<>> /\ charge = <<>>
    /\ sink = 1 /\ table = "none" /\ crit_size = CRIT_SIZE_DEFAULT /\ entries = <<>>
    /\ consumed = 0 /\ cql_batch = NewBatch /\ batch_size = 0 /\ session = "none"
    /\ log = <<>> /\ store = EmptyStore /\ sent = EmptyStore /\ err = "none"

\* One window of the stream, through the whole pipeline.
Init == raw \in SeqsUpTo(RawPool, MaxWin) /\ pc = "stream" /\ InitCommon

\* A window of at most MaxWin records hands each sink fewer entries than the
\* default threshold, so the loop of a window's sink never flushes: the
\* threshold steps are steps of SpecW.
Next ==
    \/ MapRecord \/ MapRaise \/ ReduceByKey \/ Route \/ RouteRaise \/ SaveToDatabase
    \/ LoopAdd \/ FinalFlush \/ FinalFlushRaise \/ Shutdown \/ Return

Spec == Init /\ [][Next]_vars

\* send_partition alone, called up to MaxCalls times against one store.
InitW == raw = <<>> /\ pc = "sink" /\ InitCommon

NextW ==
    \/ Call
    \/ LoopAdd \/ LoopFlush \/ LoopFlushRaise \/ FinalFlush \/ FinalFlushRaise \/ Shutdown
    \/ Return

SpecW == InitW /\ [][NextW]_vars

(***************************************************************************)
(* Properties of send_partition, checked under SpecW.                      *)
(***************************************************************************)
IsExec(ev) == ev.op = "execute"

Execs(l) == SelectSeq(l, IsExec)

IsFailedExec(ev) == ev.op = "execute" /\ ~ev.ok

FailedExecs(l) == Len(SelectSeq(l, IsFailedExec))

RECURSIVE Flat(_)
Flat(ex) == IF ex = <<>> THEN <<>> ELSE Head(ex).ops \o Flat(Tail(ex))

CeilDiv(n, b) == (n + b - 1) \div b

\* The statement parameters that an entry is to be written with.
OpsOf(es) == [i \in 1..Len(es) |-> << <<es[i][4]>>, es[i][1], es[i][2], es[i][3] >>]

Reverse(q) == [i \in 1..Len(q) |-> q[Len(q) + 1 - i]]

RECURSIVE FSum(_)
FSum(q) == IF q = <<>> THEN FZero ELSE FAdd(FSum(SubSeq(q, 1, Len(q) - 1)), q[Len(q)])

TableNames == {Tables[k] : k \in 1..Len(Tables)}

\* C1: once send_partition has made its last execute for a partition of N
\* entries with threshold B, it has made exactly ceil(N/B) executes, none of
\* them of an empty batch, and the last one carries N mod B operations, or B
\* when B divides N.
C1_FlushCount ==
    pc = "closing" =>
        LET N  == Len(entries)
            B  == crit_size
            ex == Execs(log)
        IN  /\ Len(ex) = CeilDiv(N, B)
            /\ \A i \in 1..Len(ex) : Len(ex[i].ops) >= 1
            /\ Len(ex) >= 1 =>
                  Len(ex[Len(ex)].ops) = (IF N % B = 0 THEN B ELSE N % B)

\* C6: every batch given to execute, acknowledged or not, flushed at the
\* threshold or after the loop, carries consistency level QUORUM.
C6_QuorumEveryExecute ==
    \A i \in 1..Len(log) : IsExec(log[i]) => log[i].cl = "QUORUM"

\* A call that flushed at the threshold, so with a re-created batch, and
\* then made its final execute.
C6_Witness ==
    /\ pc = "closing"
    /\ Len(Execs(log)) >= 3
    /\ crit_size < Len(entries)

\* C10: while every flush succeeds, the executed batches followed by the
\* batch being filled hold exactly the consumed entries, each once and in
\* the order consumed; no executed batch holds more than crit_size
\* operations; when the session is shut down every entry has been executed,
\* and nothing is executed after the shutdown.
C10_EachEntryOnceInOrder ==
    /\ \A i \in 1..Len(log) : IsExec(log[i]) => Len(log[i].ops) <= crit_size
    /\ \A i \in 1..Len(log) : log[i].op = "shutdown" => i = Len(log)
    /\ (pc = "loop" /\ FailedExecs(log) = 0) =>
          Flat(Execs(log)) \o cql_batch.ops = OpsOf(SubSeq(entries, 1, consumed))
    /\ pc = "closing" => Flat(Execs(log)) = OpsOf(entries)
    /\ (session = "closed") =>
          /\ log # <<>> /\ log[Len(log)].op = "shutdown"
          /\ Flat(Execs(log)) = OpsOf(entries)

\* A call with three entries and threshold 2 that has shut its session down.
C10_Witness ==
    /\ session = "closed"
    /\ Len(entries) = 3
    /\ crit_size = 2
    /\ Len(Execs(log)) = 2

InSeq(x, q) == \E i \in 1..Len(q) : q[i] = x

Keys == {paired[i].key : i \in 1..Len(paired)}

ReadingsOf(k) == {i \in 1..Len(paired) : paired[i].key = k}

AccsOf(k) == {j \in 1..Len(accs) : accs[j].key = k}

RECURSIVE CountSum(_)
CountSum(js) ==
    IF js = {} THEN 0
    ELSE LET j == CHOOSE u \in js : TRUE IN accs[j].val[4] + CountSum(js \ {j})

\* The values of key k folded left to right in arrival order.
RECURSIVE FoldLeft(_, _)
FoldLeft(k, n) ==
    IF n = 0 THEN <<>>
    ELSE LET rest == FoldLeft(k, n - 1)
         IN  IF paired[n].key # k THEN rest
             ELSE IF rest = <<>> THEN Inst(paired[n]).val
             ELSE Combine(rest, Inst(paired[n]).val)

\* A record as section 4.1 of the specification wants it: nine fields, the
\* numeric ones numeric, id, group and step not empty.
WellFormed(ln) ==
    LET x == Parsed(ln)
    IN  /\ Len(x) = 9
        /\ IntOk(x[3])
        /\ \A i \in 6..9 : FloatOk(x[i])
        /\ x[1] # <<>> /\ x[2] # <<>> /\ x[4] # <<>>

RECURSIVE WellFormedOf(_)
WellFormedOf(lns) ==
    IF lns = <<>> THEN <<>>
    ELSE IF WellFormed(Head(lns)) THEN <<Paired(Parsed(Head(lns)))>> \o WellFormedOf(Tail(lns))
    ELSE WellFormedOf(Tail(lns))

\* C2: routing raises no error, and of the reduced records routed so far one
\* whose step starts with D or d is in the discharge stream only, one whose
\* step starts with C or c is in the charge stream only, and any other is in
\* neither.
C2_RoutingExclusiveTotal ==
    Reduced =>
        /\ ~(pc = "failed" /\ err = "IndexError")
        /\ \A i \in 1..(rpos - 1) :
              LET x == Summary(accs[i])
                  c == IF x[1] = <<>> THEN "" ELSE x[1][1]
              IN  /\ c \in {"D", "d"} => InSeq(x, discharge) /\ ~InSeq(x, charge)
                  /\ c \in {"C", "c"} => InSeq(x, charge) /\ ~InSeq(x, discharge)
                  /\ c \notin {"D", "d", "C", "c"} => ~InSeq(x, discharge) /\ ~InSeq(x, charge)

\* C7: a malformed record never makes the window fail, and the window maps
\* exactly its well-formed records.
C7_MalformedDropped ==
    /\ ~(pc = "failed" /\ err \in {"IndexError", "ValueError"})
    /\ Mapped => paired = WellFormedOf(raw)

C4_SameSumsInEveryOrder ==
    Reduced => \A j \in 1..Len(accs) : accs[j].val = FoldLeft(accs[j].key, Len(paired))

\* C4: the combine is commutative, and the counts of a key's values add up
\* to the number of its readings at every stage of every order and grouping
\* of the combines; the three float sums are the same only up to rounding.
C4_CommutativeCountExact ==
    /\ \A i, j \in 1..Len(accs) :
          (i # j /\ Mergeable(accs[i], accs[j])) =>
              Combine(accs[i].val, accs[j].val) = Combine(accs[j].val, accs[i].val)
    /\ Mapped => \A k \in Keys : CountSum(AccsOf(k)) = Cardinality(ReadingsOf(k))
    /\ Reduced => \A j \in 1..Len(accs) :
          accs[j].val[4] = FoldLeft(accs[j].key, Len(paired))[4]

\* Three readings of one key reduced in a grouping whose sums are not those
\* of the left-to-right fold.
C4_Witness ==
    /\ Reduced /\ Len(accs) = 1 /\ accs[1].val[4] = 3
    /\ accs[1].val # FoldLeft(accs[1].key, Len(paired))

\* C8 as stated: every reading contributes a non-negative capacity, energy
\* and power, and folding never decreases any of the four fields.
C8_AllFieldsNonDecreasing ==
    /\ \A i \in 1..Len(paired) :
          \A f \in 1..3 : FSign(Inst(paired[i]).val[f]) >= 0
    /\ \A i, j \in 1..Len(accs) :
          (i # j /\ Mergeable(accs[i], accs[j])) =>
              LET c == Combine(accs[i].val, accs[j].val)
              IN  /\ \A f \in 1..3 : FLeq(accs[i].val[f], c[f])
                  /\ accs[i].val[4] <= c[4]

\* C8: a reading counts 1 and folding adds the counts; the capacity, energy
\* and power of a reading have the signs of current, of current * (voltage
\* + previous voltage) and of current * voltage, and folding a value in
\* does not decrease a sum when the value is non-negative and does not
\* increase it when the value is negative.
C8_CountsAddSignsFollow ==
    /\ \A i \in 1..Len(paired) :
          LET v == paired[i].val
              d == Inst(paired[i]).val
          IN  /\ d[4] = 1
              /\ FSign(d[1]) = FSign(v[3])
              /\ FSign(d[2]) = FSign(v[3]) * FSign(FAdd(v[2], v[4]))
              /\ FSign(d[3]) = FSign(v[3]) * FSign(v[2])
    /\ \A i, j \in 1..Len(accs) :
          (i # j /\ Mergeable(accs[i], accs[j])) =>
              LET c == Combine(accs[i].val, accs[j].val)
              IN  /\ c[4] = accs[i].val[4] + accs[j].val[4]
                  /\ c[4] > accs[i].val[4]
                  /\ \A f \in 1..3 :
                        /\ FSign(accs[j].val[f]) >= 0 => FLeq(accs[i].val[f], c[f])
                        /\ FSign(accs[j].val[f]) < 0 => FLeq(c[f], accs[i].val[f])

\* Two readings of one key with a negative current, about to be folded.
C8_Witness ==
    /\ Mapped /\ Len(accs) >= 2
    /\ \E i, j \in 1..Len(accs) :
          /\ i # j /\ Mergeable(accs[i], accs[j])
          /\ FSign(accs[j].val[1]) < 0
          /\ ~FLeq(accs[i].val[1], Combine(accs[i].val, accs[j].val)[1])

====
